---- MODULE Spec2Model ----
(***************************************************************************)
(* EmailSend v2, operation "send" (send.operation.ts): the submission      *)
(* loop with pacing, the settle-all join and the output loop of execute,   *)
(* and configureTransport.                                                 *)
(*                                                                         *)
(* A JavaScript value that may be undefined is a sequence of length 0 or   *)
(* 1: None is undefined, Some(v) is v.  A string that the code splits and  *)
(* trims is a sequence of one-character strings.  Item indexes are 0-based *)
(* as in the code; sendMailPromises, promisesResponses and returnData are  *)
(* sequences, so array position p is sequence position p + 1.              *)
(***************************************************************************)
EXTENDS Integers, Sequences, FiniteSets, TLC

VARIABLES
    items,              \* this.getInputData() with each item's resolved parameters
    credentials,        \* this.getCredentials('smtp')
    continueOnFail,     \* this.continueOnFail()
    pc,                 \* "loop", "sleep", "out", "done", "error"
    itemIndex,          \* the loop variable of the loop that is running
    sendMailPromises,   \* the promises pushed by the submission loop
    sleeps,             \* the calls of sleep() made so far
    promisesResponses,  \* the result of Promise.allSettled, shifted by the output loop
    returnData,         \* the records pushed by the output loop
    returned,           \* None, or Some(the sequence execute returned)
    thrown,             \* None, or Some(the error execute threw)
    rejectedInSleep,    \* history: some send was rejected while a sleep() was pending
    firstSettled        \* history: None, or Some(the item whose send settled first)

vars == <<items, credentials, continueOnFail, pc, itemIndex, sendMailPromises,
          sleeps, promisesResponses, returnData, returned, thrown, rejectedInSleep,
          firstSettled>>

----------------------------------------------------------------------------
(* Bounds *)

\* the longest input of an execution whose items differ from one another
MaxItems == 3

\* the longest input of an execution whose items all carry the same options
MaxPacedItems == 5

\* the longest input of an execution whose items differ in attachments
MaxAttachItems == 1

----------------------------------------------------------------------------
(* JavaScript values *)

None == <<>>

Some(v) == <<v>>

\* x ?? d
Coalesce(x, d) == IF x = None THEN d ELSE x[1]

\* a % b for a >= 0: NaN (no number) when b is 0, else the remainder of a by |b|
NaN == <<>>

JsRemainder(a, b) ==
    IF b = 0 THEN NaN
    ELSE IF b > 0 THEN Some(a % b) ELSE Some(a % (0 - b))

\* String.prototype.trim on a sequence of characters
RECURSIVE trimStart(_)
trimStart(s) ==
    IF s # <<>> /\ Head(s) = " " THEN trimStart(Tail(s)) ELSE s

RECURSIVE trimEnd(_)
trimEnd(s) ==
    IF s # <<>> /\ s[Len(s)] = " " THEN trimEnd(SubSeq(s, 1, Len(s) - 1)) ELSE s

trim(s) == trimEnd(trimStart(s))

\* String.prototype.split(','): the pieces between the commas, empty ones kept
RECURSIVE split(_, _)
split(s, piece) ==
    IF s = <<>> THEN <<piece>>
    ELSE IF Head(s) = "," THEN <<piece>> \o split(Tail(s), <<>>)
    ELSE split(Tail(s), Append(piece, Head(s)))

\* options.attachments.split(',').map(trim)
attachmentProperties(spec) ==
    LET pieces == split(spec, <<>>)
    IN  [k \in 1..Len(pieces) |-> trim(pieces[k])]

----------------------------------------------------------------------------
(* configureTransport *)

\* credentials.user, credentials.password: undefined and '' are falsy
Truthy(s) == s # None /\ s[1] # ""

configureTransportLax(creds, options) ==
    [auth |-> IF Truthy(creds.user) \/ Truthy(creds.password)
              THEN Some([user |-> creds.user, pass |-> creds.password])
              ELSE None,
     tls  |-> IF options.allowUnauthorizedCerts # Some(FALSE)
              THEN Some([rejectUnauthorized |-> FALSE])
              ELSE None]

configureTransport(creds, options) ==
    [auth |-> IF Truthy(creds.user) \/ Truthy(creds.password)
              THEN Some([user |-> creds.user, pass |-> creds.password])
              ELSE None,
     tls  |-> IF options.allowUnauthorizedCerts = Some(TRUE)
              THEN Some([rejectUnauthorized |-> FALSE])
              ELSE None]

----------------------------------------------------------------------------
(* The body of the submission loop, for the item at index i *)

\* this.getNodeParameter throws for the item
ParameterError(i) == ~items[i].paramsOk

\* line 264: options.attachments && item.binary
HasAttachmentSpec(i) ==
    /\ items[i].attachments # None
    /\ items[i].attachments[1] # <<>>
    /\ items[i].binary # None

\* this.helpers.assertBinaryData(i, propertyName) throws: the item has no
\* binary property of that name
assertBinaryDataThrows(i, propertyName) ==
    propertyName \notin DOMAIN items[i].binary[1]

\* lines 272-279: the loop over the names throws at the first missing one
AttachmentError(i) ==
    /\ HasAttachmentSpec(i)
    /\ \E k \in DOMAIN attachmentProperties(items[i].attachments[1]) :
          assertBinaryDataThrows(i, attachmentProperties(items[i].attachments[1])[k])

\* lines 265-279: the attachments list built when no lookup throws
attachmentsOfCidFilename(i) ==
    LET names == attachmentProperties(items[i].attachments[1])
    IN  [k \in 1..Len(names) |->
            [filename |-> IF Truthy(items[i].binary[1][names[k]].fileName)
                          THEN items[i].binary[1][names[k]].fileName[1]
                          ELSE "unknown",
             content  |-> <<i, names[k]>>,
             cid      |-> IF Truthy(items[i].binary[1][names[k]].fileName)
                          THEN <<items[i].binary[1][names[k]].fileName[1]>>
                          ELSE <<"unknown">>]]

attachmentsOf(i) ==
    LET names == attachmentProperties(items[i].attachments[1])
    IN  [k \in 1..Len(names) |->
            [filename |-> IF Truthy(items[i].binary[1][names[k]].fileName)
                          THEN items[i].binary[1][names[k]].fileName[1]
                          ELSE "unknown",
             content  |-> <<i, names[k]>>,
             cid      |-> names[k]]]

\* lines 281-283: the attachments field is set only for a non-empty list
attachmentsField(list) == IF Len(list) > 0 THEN Some(list) ELSE None

\* lines 247-284: the message handed to sendMail
mailOptions(i) ==
    [item        |-> i,
     attachments |-> IF HasAttachmentSpec(i)
                     THEN attachmentsField(attachmentsOf(i))
                     ELSE None]

\* the try block throws before the send is issued (lines 237-284)
ResolutionFails(i) == ParameterError(i) \/ AttachmentError(i)

\* lines 287-288
DefaultBatchSize == 1

DefaultBatchInterval == 1000

batchSizeOf(i) == Coalesce(items[i].batchSize, DefaultBatchSize)

batchIntervalOf(i) == Coalesce(items[i].batchInterval, DefaultBatchInterval)

\* lines 290-291: the two conditions under which sleep is awaited
ShouldSleepEveryBatchBoundary(i) ==
    /\ batchSizeOf(i) >= 0
    /\ batchIntervalOf(i) > 0
    /\ JsRemainder(i, batchSizeOf(i)) = Some(0)

ShouldSleep(i) ==
    /\ i > 0
    /\ batchSizeOf(i) >= 0
    /\ batchIntervalOf(i) > 0
    /\ JsRemainder(i, batchSizeOf(i)) = Some(0)

\* line 296: transporter.sendMail(mailOptions), a pending promise
sendMail(i) ==
    [item      |-> i,
     transport |-> configureTransport(credentials, items[i]),
     mail      |-> mailOptions(i),
     status    |-> "pending"]

----------------------------------------------------------------------------
(* Inputs *)

\* attachment specs: unset, '', 'a, b', ' b '
AttachmentSpecs ==
    { None,
      Some(<<>>),
      Some(<<"a", ",", " ", "b">>),
      Some(<<" ", "b", " ">>) }

BinaryProperty(fileName) == [fileName |-> fileName]

\* item.binary: undefined, {}, {b}, {a, b}
Binaries ==
    { None,
      Some(<<>>),
      Some([nm \in {<<"b">>} |-> BinaryProperty(None)]),
      Some([nm \in {<<"a">>, <<"b">>} |->
               BinaryProperty(IF nm = <<"a">> THEN Some("a.txt") ELSE Some(""))]) }

\* an item whose parameters resolve, with no option set
PlainItem ==
    [paramsOk               |-> TRUE,
     attachments            |-> None,
     binary                 |-> None,
     allowUnauthorizedCerts |-> None,
     batchSize              |-> None,
     batchInterval          |-> None]

\* items that differ in whether their parameters resolve and in their batching:
\* paced at every item, failing, batchSize 0, batchSize 2
MixedItems ==
    { PlainItem,
      [PlainItem EXCEPT !.paramsOk = FALSE],
      [PlainItem EXCEPT !.batchSize = Some(0), !.batchInterval = Some(100)],
      [PlainItem EXCEPT !.batchSize = Some(2), !.batchInterval = Some(100)] }

\* the batching options an execution may give to all of its items
UniformPacingItems ==
    { [PlainItem EXCEPT !.batchSize = bs, !.batchInterval = bi] :
        bs \in {None, Some(-1), Some(0), Some(1), Some(2)},
        bi \in {None, Some(0), Some(100)} }

\* items that differ in their attachments
AttachItems ==
    { [PlainItem EXCEPT !.attachments = a, !.binary = b, !.batchSize = Some(-1)] :
        a \in AttachmentSpecs, b \in Binaries }

\* items that differ in allowUnauthorizedCerts
TransportItems ==
    { [PlainItem EXCEPT !.allowUnauthorizedCerts = c, !.batchSize = Some(-1)] :
        c \in {None, Some(TRUE), Some(FALSE)} }

\* credentials without user and password, with an empty user, with only a
\* user, with only a password
Credentials ==
    { [user |-> u, password |-> None] : u \in {None, Some(""), Some("user")} }
    \cup { [user |-> None, password |-> Some("secret")] }

FullCredentials == [user |-> Some("user"), password |-> Some("secret")]

\* the inputs of the executions explored
Inputs ==
    { [items |-> its, credentials |-> FullCredentials] :
        its \in UNION { [0..(n - 1) -> MixedItems] : n \in 0..MaxItems } }
    \cup
    { [items |-> [i \in 0..(n - 1) |-> it], credentials |-> FullCredentials] :
        n \in 0..MaxPacedItems, it \in UniformPacingItems }
    \cup
    { [items |-> its, credentials |-> FullCredentials] :
        its \in UNION { [0..(n - 1) -> AttachItems] : n \in 0..MaxAttachItems } }
    \cup
    { [items |-> its, credentials |-> c] :
        its \in UNION { [0..(n - 1) -> TransportItems] : n \in 0..MaxItems },
        c \in Credentials }

NumItems == Cardinality(DOMAIN items)

----------------------------------------------------------------------------
(* execute *)

Init ==
    /\ \E in \in Inputs :
          /\ items = in.items
          /\ credentials = in.credentials
    /\ continueOnFail \in BOOLEAN
    /\ pc = "loop"
    /\ itemIndex = 0
    /\ sendMailPromises = <<>>
    /\ sleeps = <<>>
    /\ promisesResponses = <<>>
    /\ returnData = <<>>
    /\ returned = None
    /\ thrown = None
    /\ rejectedInSleep = FALSE
    /\ firstSettled = None

Inputs_ == <<items, credentials, continueOnFail>>

Outputs_ == <<promisesResponses, returnData, returned, thrown>>

History_ == <<rejectedInSleep, firstSettled>>

\* lines 234-298 for an item whose try block throws: the catch block is empty
SkipItemStillSends ==
    /\ pc = "loop"
    /\ itemIndex < NumItems
    /\ ResolutionFails(itemIndex)
    /\ sendMailPromises' =
          Append(sendMailPromises,
                 [item      |-> itemIndex,
                  transport |-> configureTransport(credentials, items[itemIndex]),
                  mail      |-> [item |-> itemIndex, attachments |-> None],
                  status    |-> "pending"])
    /\ itemIndex' = itemIndex + 1
    /\ UNCHANGED <<Inputs_, Outputs_, pc, sleeps, History_>>

SkipItem ==
    /\ pc = "loop"
    /\ itemIndex < NumItems
    /\ ResolutionFails(itemIndex)
    /\ itemIndex' = itemIndex + 1
    /\ UNCHANGED <<Inputs_, Outputs_, pc, sendMailPromises, sleeps, History_>>

\* lines 234-296 for an item that resolves and is not paced
SubmitItem ==
    /\ pc = "loop"
    /\ itemIndex < NumItems
    /\ ~ResolutionFails(itemIndex)
    /\ ~ShouldSleep(itemIndex)
    /\ sendMailPromises' = Append(sendMailPromises, sendMail(itemIndex))
    /\ itemIndex' = itemIndex + 1
    /\ UNCHANGED <<Inputs_, Outputs_, pc, sleeps, History_>>

\* lines 234-292 for an item that resolves and is paced: await sleep(batchInterval)
StartSleepAfterSend ==
    /\ pc = "loop"
    /\ itemIndex < NumItems
    /\ ~ResolutionFails(itemIndex)
    /\ ShouldSleep(itemIndex)
    /\ sendMailPromises' = Append(sendMailPromises, sendMail(itemIndex))
    /\ sleeps' = Append(sleeps, [before |-> itemIndex, ms |-> batchIntervalOf(itemIndex)])
    /\ pc' = "sleep"
    /\ UNCHANGED <<Inputs_, Outputs_, itemIndex, History_>>

StartSleep ==
    /\ pc = "loop"
    /\ itemIndex < NumItems
    /\ ~ResolutionFails(itemIndex)
    /\ ShouldSleep(itemIndex)
    /\ sleeps' = Append(sleeps, [before |-> itemIndex, ms |-> batchIntervalOf(itemIndex)])
    /\ pc' = "sleep"
    /\ UNCHANGED <<Inputs_, Outputs_, itemIndex, sendMailPromises, History_>>

\* lines 292-296: the sleep is over, the send of the paced item is issued
EndSleep ==
    /\ pc = "sleep"
    /\ sendMailPromises' = Append(sendMailPromises, sendMail(itemIndex))
    /\ itemIndex' = itemIndex + 1
    /\ pc' = "loop"
    /\ UNCHANGED <<Inputs_, Outputs_, sleeps, History_>>

\* a send issued at line 296 settles, at any await of execute
Settle(p, status) ==
    /\ pc \in {"loop", "sleep"}
    /\ p \in DOMAIN sendMailPromises
    /\ sendMailPromises[p].status = "pending"
    /\ sendMailPromises' = [sendMailPromises EXCEPT ![p].status = status]
    /\ rejectedInSleep' = (rejectedInSleep \/ (pc = "sleep" /\ status = "rejected"))
    /\ firstSettled' = IF firstSettled = None
                       THEN Some(sendMailPromises[p].item)
                       ELSE firstSettled
    /\ UNCHANGED <<Inputs_, Outputs_, pc, itemIndex, sleeps>>

Fulfil == \E p \in DOMAIN sendMailPromises : Settle(p, "fulfilled")

Reject == \E p \in DOMAIN sendMailPromises : Settle(p, "rejected")

\* Promise.allSettled resolves once no promise of the array is pending
allSettledFirstRejection(promises) ==
    \/ \A p \in DOMAIN promises : promises[p].status # "pending"
    \/ \E p \in DOMAIN promises : promises[p].status = "rejected"

allSettled(promises) ==
    \A p \in DOMAIN promises : promises[p].status # "pending"

\* the settled result of one promise: {status, value} or {status, reason}
settledResult(promise) ==
    IF promise.status = "fulfilled"
    THEN [status |-> "fulfilled", value |-> [messageOf |-> promise.item]]
    ELSE [status |-> promise.status,
          reason |-> [message |-> [errorOf |-> promise.item], cert |-> TRUE]]

\* line 301: the array Promise.allSettled resolves to, in the order of the promises
allSettledResultsReversed(promises) ==
    [p \in DOMAIN promises |-> settledResult(promises[Len(promises) + 1 - p])]

allSettledResults(promises) ==
    [p \in DOMAIN promises |-> settledResult(promises[p])]

\* line 301: the loop is over and await Promise.allSettled(sendMailPromises) resolves
AwaitAllSettled ==
    /\ pc = "loop"
    /\ itemIndex = NumItems
    /\ allSettled(sendMailPromises)
    /\ promisesResponses' = allSettledResults(sendMailPromises)
    /\ itemIndex' = 0
    /\ pc' = "out"
    /\ UNCHANGED <<Inputs_, sendMailPromises, sleeps, returnData, returned, thrown, History_>>

\* line 305: promisesResponses.shift()
shift(responses) ==
    IF responses = <<>> THEN None ELSE Some(Head(responses))

afterShift(responses) ==
    IF responses = <<>> THEN <<>> ELSE Tail(responses)

\* lines 321-326
successRecord(response, i) ==
    [json |-> response.value, pairedItem |-> [item |-> i]]

\* lines 308-315
errorRecordUnpaired(response, i) ==
    [json |-> [error |-> response.reason.message], pairedItem |-> [item |-> 0]]

errorRecord(response, i) ==
    [json |-> [error |-> response.reason.message], pairedItem |-> [item |-> i]]

\* lines 304-327, one turn of the output loop that pushes a record
EmitOutcome ==
    /\ pc = "out"
    /\ itemIndex < NumItems
    /\ LET response == shift(promisesResponses)
       IN  /\ response # None
           /\ \/ /\ response[1].status = "fulfilled"
                 /\ returnData' = Append(returnData, successRecord(response[1], itemIndex))
              \/ /\ response[1].status # "fulfilled"
                 /\ continueOnFail
                 /\ returnData' = Append(returnData, errorRecord(response[1], itemIndex))
    /\ promisesResponses' = afterShift(promisesResponses)
    /\ itemIndex' = itemIndex + 1
    /\ UNCHANGED <<Inputs_, pc, sendMailPromises, sleeps, returned, thrown, History_>>

\* lines 318-319: delete response.reason.cert; throw new NodeApiError(node, reason)
NodeApiError(reason) ==
    [type |-> "NodeApiError", message |-> reason.message, cert |-> FALSE]

\* lines 306-319, the turn of the output loop that throws for a rejected send
ThrowNodeApiError ==
    /\ pc = "out"
    /\ itemIndex < NumItems
    /\ LET response == shift(promisesResponses)
       IN  /\ response # None
           /\ response[1].status # "fulfilled"
           /\ ~continueOnFail
           /\ thrown' = Some(NodeApiError(response[1].reason))
    /\ promisesResponses' = afterShift(promisesResponses)
    /\ pc' = "error"
    /\ UNCHANGED <<Inputs_, itemIndex, sendMailPromises, sleeps, returnData, returned, History_>>

\* line 306 when shift() returned undefined: reading .status throws a TypeError
ThrowTypeError ==
    /\ pc = "out"
    /\ itemIndex < NumItems
    /\ shift(promisesResponses) = None
    /\ thrown' = Some([type |-> "TypeError"])
    /\ pc' = "error"
    /\ UNCHANGED <<Inputs_, itemIndex, sendMailPromises, sleeps, promisesResponses,
                   returnData, returned, History_>>

\* line 329: return this.prepareOutputData(returnData)
Return ==
    /\ pc = "out"
    /\ itemIndex = NumItems
    /\ returned' = Some(returnData)
    /\ pc' = "done"
    /\ UNCHANGED <<Inputs_, itemIndex, sendMailPromises, sleeps, promisesResponses,
                   returnData, thrown, History_>>

Next ==
    \/ SkipItem
    \/ SubmitItem
    \/ StartSleep
    \/ EndSleep
    \/ Fulfil
    \/ Reject
    \/ AwaitAllSettled
    \/ EmitOutcome
    \/ ThrowNodeApiError
    \/ ThrowTypeError
    \/ Return

Spec == Init /\ [][Next]_vars

----------------------------------------------------------------------------
(* Vocabulary of the properties *)

ItemIndexes == 0..(NumItems - 1)

\* the items for which a send has been issued
Issued == { sendMailPromises[p].item : p \in DOMAIN sendMailPromises }

\* the promise positions at which the send of item i was pushed
PromisesOf(i) == { p \in DOMAIN sendMailPromises : sendMailPromises[p].item = i }

\* the items before which sleep() has been called
SleptBefore == { sleeps[k].before : k \in DOMAIN sleeps }

\* the submission loop has finished its turn for item i, up to the send
Submitted(i) ==
    IF pc \in {"loop", "sleep"} THEN i < itemIndex ELSE TRUE

\* the submission loop has passed the pacing step (lines 290-294) of item i
PassedPacing(i) == Submitted(i) \/ (pc = "sleep" /\ i = itemIndex)

\* execute has ended, by returning or by throwing
Ended == pc \in {"done", "error"}

\* the record an output item must be for the send of item i, paired with i
OutcomeOf(i, status) ==
    IF status = "fulfilled"
    THEN [json |-> [messageOf |-> i], pairedItem |-> [item |-> i]]
    ELSE [json |-> [error |-> [errorOf |-> i]], pairedItem |-> [item |-> i]]

\* the least element of a non-empty set of item indexes
Least(S) == CHOOSE x \in S : \A y \in S : x <= y

----------------------------------------------------------------------------
(* C1 *)

\* C1: whenever execute returns, the output has one record per input item, and
\* the record at position i is paired with i and carries the settled result of
\* the send issued for item i (its response, or its error message when the send
\* was rejected and continue-on-fail is set).
C1_OutputPairedInInputOrder ==
    returned # None =>
        /\ Len(returned[1]) = NumItems
        /\ \A i \in ItemIndexes :
              /\ Cardinality(PromisesOf(i)) = 1
              /\ \A p \in PromisesOf(i) :
                    /\ returned[1][i + 1] = OutcomeOf(i, sendMailPromises[p].status)
                    /\ sendMailPromises[p].status = "rejected" => continueOnFail

\* an output of three records, one of them an error, whose first send to settle
\* was not the first one issued
C1_Witness ==
    /\ returned # None
    /\ NumItems = 3
    /\ sendMailPromises[2].status = "rejected"
    /\ sendMailPromises[1].status = "fulfilled"
    /\ firstSettled = Some(2)

----------------------------------------------------------------------------
(* C2 *)

\* C2: with continue-on-fail, execute returns one outcome per input item, each
\* paired with its own index: an error-tagged one for an item whose resolution
\* failed, and the settled result of its own send for every other item.
C2_FailedResolutionYieldsErrorOutcome ==
    (continueOnFail /\ Ended) =>
        /\ returned # None
        /\ Len(returned[1]) = NumItems
        /\ \A i \in ItemIndexes :
              /\ returned[1][i + 1].pairedItem.item = i
              /\ ResolutionFails(i) => "error" \in DOMAIN returned[1][i + 1].json
              /\ ~ResolutionFails(i) =>
                    \E p \in PromisesOf(i) :
                        returned[1][i + 1] = OutcomeOf(i, sendMailPromises[p].status)

----------------------------------------------------------------------------
(* C3 *)

RejectedItems ==
    { sendMailPromises[p].item :
        p \in { q \in DOMAIN sendMailPromises : sendMailPromises[q].status = "rejected" } }

\* C3: without continue-on-fail, when execute has ended and some send was
\* rejected, nothing was returned and the one error thrown is the NodeApiError
\* of the rejected send with the lowest item index.
C3_FirstFailureByIndexIsThrown ==
    (~continueOnFail /\ Ended /\ RejectedItems # {}) =>
        /\ pc = "error"
        /\ returned = None
        /\ thrown # None
        /\ thrown[1].type = "NodeApiError"
        /\ thrown[1].message = [errorOf |-> Least(RejectedItems)]

\* the error thrown is that of item 1 although the send of item 2 was rejected
\* first in time; the record already pushed for item 0 is not returned
C3_Witness ==
    /\ ~continueOnFail
    /\ pc = "error"
    /\ thrown # None
    /\ thrown[1].type = "NodeApiError"
    /\ thrown[1].message = [errorOf |-> 1]
    /\ RejectedItems = {1, 2}
    /\ firstSettled = Some(2)
    /\ Len(returnData) = 1
    /\ returned = None

----------------------------------------------------------------------------
(* C4 *)

\* the condition the claim gives for a delay before item i
PacedByClaim(i) ==
    /\ i > 0
    /\ Coalesce(items[i].batchInterval, 1000) > 0
    /\ Coalesce(items[i].batchSize, 1) >= 1
    /\ i % Coalesce(items[i].batchSize, 1) = 0

----------------------------------------------------------------------------
(* C5 *)

\* C5: an item with batchSize 0 is paced as with batchSize 1: with
\* batchInterval > 0, a delay precedes the submission of every such item of
\* index > 0.
C5_BatchSizeZeroTreatedAsOne ==
    \A i \in ItemIndexes :
        ( /\ PassedPacing(i)
          /\ ~ResolutionFails(i)
          /\ i > 0
          /\ items[i].batchSize = Some(0)
          /\ batchIntervalOf(i) > 0 )
        => i \in SleptBefore

----------------------------------------------------------------------------
(* C6 *)

\* the item has a non-empty attachments spec and its parameters resolve
WithSpec(i) ==
    /\ items[i].paramsOk
    /\ items[i].attachments # None
    /\ items[i].attachments[1] # <<>>

\* the names of the spec of item i: split on commas, blanks trimmed
SpecNames(i) == attachmentProperties(items[i].attachments[1])

\* every name of the spec has a binary property of the item
AllMatch(i) ==
    /\ items[i].binary # None
    /\ \A k \in DOMAIN SpecNames(i) : SpecNames(i)[k] \in DOMAIN items[i].binary[1]

\* no name of the spec has a binary property of the item
NoneMatch(i) ==
    \/ items[i].binary = None
    \/ \A k \in DOMAIN SpecNames(i) : SpecNames(i)[k] \notin DOMAIN items[i].binary[1]

\* the one send of item i carries one attachment per name, cid being the name
SentWithOnePerName(i) ==
    /\ Cardinality(PromisesOf(i)) = 1
    /\ \A p \in PromisesOf(i) :
          LET att == sendMailPromises[p].mail.attachments
          IN  /\ att # None
              /\ Len(att[1]) = Len(SpecNames(i))
              /\ \A k \in DOMAIN SpecNames(i) : att[1][k].cid = SpecNames(i)[k]

\* the one send of item i carries no attachments field
SentWithoutAttachments(i) ==
    /\ Cardinality(PromisesOf(i)) = 1
    /\ \A p \in PromisesOf(i) : sendMailPromises[p].mail.attachments = None

----------------------------------------------------------------------------
(* C7 *)

\* C7: the transport of every send has basic auth exactly when the credentials
\* hold a non-empty user or password, and has certificate validation disabled
\* exactly when the options of its own item set allowUnauthorizedCerts to true,
\* whatever the other items of the execution set.
C7_TransportDependsOnOwnItem ==
    \A p \in DOMAIN sendMailPromises :
        LET t == sendMailPromises[p].transport
            i == sendMailPromises[p].item
        IN  /\ t.auth # None <=> (Truthy(credentials.user) \/ Truthy(credentials.password))
            /\ t.auth # None =>
                  t.auth[1] = [user |-> credentials.user, pass |-> credentials.password]
            /\ t.tls # None <=> items[i].allowUnauthorizedCerts = Some(TRUE)
            /\ t.tls # None => t.tls[1] = [rejectUnauthorized |-> FALSE]

\* an item with the flag set between two items without it: only its own
\* transport has validation disabled
C7_Witness ==
    /\ Len(sendMailPromises) = 3
    /\ items[0].allowUnauthorizedCerts = None
    /\ items[1].allowUnauthorizedCerts = Some(TRUE)
    /\ items[2].allowUnauthorizedCerts = Some(FALSE)
    /\ sendMailPromises[1].transport.tls = None
    /\ sendMailPromises[2].transport.tls # None
    /\ sendMailPromises[3].transport.tls = None
    /\ sendMailPromises[1].transport.auth # None
    /\ credentials.user = None

----------------------------------------------------------------------------
(* C8 *)

\* C8: the sends issued are, in increasing item order and once each, those of
\* the items the submission loop has handled and whose resolution succeeded.
C8_OneSendPerResolvedItemInOrder ==
    /\ Issued = { i \in ItemIndexes : Submitted(i) /\ ~ResolutionFails(i) }
    /\ \A p, q \in DOMAIN sendMailPromises :
          p < q => sendMailPromises[p].item < sendMailPromises[q].item

\* three items, the middle one failing to resolve: sends for items 0 and 2 only
C8_Witness ==
    /\ NumItems = 3
    /\ ResolutionFails(1)
    /\ pc = "out"
    /\ Len(sendMailPromises) = 2
    /\ sendMailPromises[1].item = 0
    /\ sendMailPromises[2].item = 2

----------------------------------------------------------------------------
(* C9 *)

\* the output loop has started, or something was emitted or thrown
PastJoin ==
    \/ pc \in {"out", "done", "error"}
    \/ returnData # <<>>
    \/ returned # None
    \/ thrown # None

\* C9: nothing is emitted or thrown before the join: once the output loop has
\* started (or a record or an error exists) every resolvable item's send has
\* been issued and every issued send has settled; and before that, a rejected
\* send leaves the submission of the next item and the settling of every
\* pending send enabled.
C9_NothingBeforeAllSettled ==
    /\ PastJoin =>
          /\ Issued = { i \in ItemIndexes : ~ResolutionFails(i) }
          /\ \A p \in DOMAIN sendMailPromises : sendMailPromises[p].status # "pending"
    /\ (pc = "loop" /\ itemIndex < NumItems /\ RejectedItems # {}) =>
          ENABLED (SkipItem \/ SubmitItem \/ StartSleep)
    /\ (pc \in {"loop", "sleep"} /\ RejectedItems # {}) =>
          \A p \in DOMAIN sendMailPromises :
              sendMailPromises[p].status = "pending" =>
                  ENABLED Settle(p, "fulfilled") /\ ENABLED Settle(p, "rejected")

\* a terminal error for item 0, whose send was the first to settle, after the
\* sends of items 1 and 2 were issued and settled too
C9_Witness ==
    /\ pc = "error"
    /\ ~continueOnFail
    /\ thrown # None
    /\ thrown[1].type = "NodeApiError"
    /\ firstSettled = Some(0)
    /\ Len(sendMailPromises) = 3
    /\ sendMailPromises[1].status = "rejected"
    /\ sendMailPromises[2].status = "fulfilled"
    /\ sendMailPromises[3].status = "rejected"

----------------------------------------------------------------------------
(* C10 *)

\* C10: while the delay before item i is pending, the sends issued are exactly
\* those of the resolvable items before i, each of them still pending may
\* settle either way, and the end of the delay is enabled whatever has been
\* rejected; a rejection during a delay leaves every later resolvable item
\* submitted once the loop is over.
C10_DelaySuspendsOnlySubmission ==
    /\ pc = "sleep" =>
          /\ Issued = { j \in ItemIndexes : j < itemIndex /\ ~ResolutionFails(j) }
          /\ ENABLED EndSleep
          /\ \A p \in DOMAIN sendMailPromises :
                sendMailPromises[p].status = "pending" =>
                    ENABLED Settle(p, "fulfilled") /\ ENABLED Settle(p, "rejected")
    /\ (rejectedInSleep /\ pc = "loop" /\ itemIndex < NumItems) =>
          ENABLED (SkipItem \/ SubmitItem \/ StartSleep)
    /\ (rejectedInSleep /\ pc \notin {"loop", "sleep"}) =>
          Issued = { j \in ItemIndexes : ~ResolutionFails(j) }

\* during the delay before item 2, the send of item 1 was rejected while the
\* send of item 0 is still pending
C10_Witness ==
    /\ pc = "sleep"
    /\ itemIndex = 2
    /\ rejectedInSleep
    /\ Len(sendMailPromises) = 2
    /\ sendMailPromises[1].status = "pending"
    /\ sendMailPromises[2].status = "rejected"
    /\ firstSettled = Some(1)

====
